---- MODULE Spec2Model ----
(***************************************************************************)
(* Sudoku <-> DIMACS CNF: the encoder of lab_1/encode_sudoku.py             *)
(* (SudokuEncoder) and the decoder/solver driver of lab_1/solve_sudoku.py   *)
(* (DPLLSolver).  Grids are Python lists of lists; here a grid is a         *)
(* sequence of rows, and the 0-based puzzle[row][col] of the source is      *)
(* Cell(puzzle, row, col) == puzzle[row + 1][col + 1].                      *)
(***************************************************************************)
EXTENDS Integers, Sequences, FiniteSets, TLC

(***************************************************************************)
(* Bounds of the model.                                                    *)
(***************************************************************************)
\* number of method calls made on one SudokuEncoder instance
MaxCalls == 2
\* length of the model (list of literals) handed to extract_solution
MaxModelLen == 3

(***************************************************************************)
(* Python helpers.                                                         *)
(***************************************************************************)
\* range(a, b) as the sequence a, a+1, ..., b-1
Range(a, b) == [i \in 1..(IF b > a THEN b - a ELSE 0) |-> a + i - 1]

\* puzzle[row][col] with the source's 0-based indices
Cell(puzzle, row, col) == puzzle[row + 1][col + 1]

\* [[0 for _ in range(9)] for _ in range(9)]
ZeroGrid == [r \in 1..9 |-> [c \in 1..9 |-> 0]]

\* grid[row][col] = num with the source's 0-based indices
SetCell(grid, row, col, num) == [grid EXCEPT ![row + 1][col + 1] = num]

(***************************************************************************)
(* SudokuEncoder                                                           *)
(***************************************************************************)
\* self.size = 9
size == 9

\* SudokuEncoder.__init__: the state of a fresh encoder
NewEncoder == [clauses |-> <<>>, num_clauses |-> 0]

\* a slip in _add_clause: the clause is stored but the counter is not moved
add_clause_nocount(self, clause) ==
    [clauses |-> Append(self.clauses, clause), num_clauses |-> self.num_clauses]

_add_clause(self, clause) ==
    [clauses |-> Append(self.clauses, clause), num_clauses |-> self.num_clauses + 1]

\* a slip in get_var: the column stride taken for the row stride
get_var_stride(row, col, num) == row * 9 + col * 9 + num

get_var(row, col, num) == row * 81 + col * 9 + num

\* the calls of _add_clause made by one loop nest: clause after clause, in the
\* order in which the loops produce them.  The list is halved so that the
\* evaluation stays shallow, and the first half is completed before the
\* second starts, as statements run in order (the test on `done` only fixes
\* that order of evaluation; it always holds).
RECURSIVE add_clauses(_, _, _, _)
add_clauses(self, cls, lo, hi) ==
    IF lo > hi THEN self
    ELSE IF lo = hi THEN _add_clause(self, cls[lo])
    ELSE LET mid == (lo + hi) \div 2
             done == add_clauses(self, cls, lo, mid)
         IN  IF Len(done.clauses) >= 0 THEN add_clauses(done, cls, mid + 1, hi) ELSE done

\* for num1 in range(1, 10): for num2 in range(num1 + 1, 10): the pairs
\* (num1, num2) in the order of the two loops
digit_pairs ==
    SelectSeq([i \in 1..81 |-> <<((i - 1) \div 9) + 1, ((i - 1) % 9) + 1>>],
              LAMBDA p : p[1] + 1 <= p[2] /\ p[2] < 10)

\* the clauses of one cell: at least one digit, then at most one per pair
cell_clauses(row, col) ==
    <<[k \in 1..9 |-> get_var(row, col, Range(1, 10)[k])]>>
    \o [p \in 1..Len(digit_pairs) |->
           <<-get_var(row, col, digit_pairs[p][1]), -get_var(row, col, digit_pairs[p][2])>>]

\* for row in range(size): for col in range(size): cells lo..hi in row-major order
RECURSIVE cell_loop(_, _, _)
cell_loop(self, lo, hi) ==
    IF lo > hi THEN self
    ELSE IF lo = hi
    THEN LET cls == cell_clauses(lo \div size, lo % size)
         IN  add_clauses(self, cls, 1, Len(cls))
    ELSE LET mid == (lo + hi) \div 2
             done == cell_loop(self, lo, mid)
         IN  IF Len(done.clauses) >= 0 THEN cell_loop(done, mid + 1, hi) ELSE done

encode_cell_constraints(self) == cell_loop(self, 0, size * size - 1)

\* for row in range(size): for num in range(1, 10): one clause over the columns
row_clauses ==
    [k \in 1..(size * 9) |->
        [c \in 1..size |-> get_var((k - 1) \div 9, Range(0, size)[c], ((k - 1) % 9) + 1)]]

encode_row_constraints(self) == add_clauses(self, row_clauses, 1, Len(row_clauses))

\* for col in range(size): for num in range(1, 10): one clause over the rows
col_clauses ==
    [k \in 1..(size * 9) |->
        [r \in 1..size |-> get_var(Range(0, size)[r], (k - 1) \div 9, ((k - 1) % 9) + 1)]]

encode_col_constraints(self) == add_clauses(self, col_clauses, 1, Len(col_clauses))

\* for block_row in range(3): for block_col in range(3): for num in range(1, 10):
\* one clause over the cells (block_row*3 + i, block_col*3 + j), i outer, j inner
block_clauses ==
    [k \in 1..(3 * 3 * 9) |->
        LET block_row == (k - 1) \div 27
            block_col == ((k - 1) \div 9) % 3
            num == ((k - 1) % 9) + 1
        IN  [m \in 1..9 |-> get_var(block_row * 3 + ((m - 1) \div 3),
                                    block_col * 3 + ((m - 1) % 3), num)]]

encode_block_constraints(self) == add_clauses(self, block_clauses, 1, Len(block_clauses))

\* a loop that is left after the first given value
initial_clauses_first(puzzle) ==
    LET cells == SelectSeq(Range(0, size * size),
                           LAMBDA k : Cell(puzzle, k \div size, k % size) # 0)
    IN  [i \in 1..(IF Len(cells) > 0 THEN 1 ELSE 0) |->
            <<get_var(cells[i] \div size, cells[i] % size,
                      Cell(puzzle, cells[i] \div size, cells[i] % size))>>]

\* for row, col in row-major order: if puzzle[row][col] != 0: the unit clause
initial_clauses(puzzle) ==
    LET cells == SelectSeq(Range(0, size * size),
                           LAMBDA k : Cell(puzzle, k \div size, k % size) # 0)
    IN  [i \in 1..Len(cells) |->
            <<get_var(cells[i] \div size, cells[i] % size,
                      Cell(puzzle, cells[i] \div size, cells[i] % size))>>]

encode_initial_values(self, puzzle) ==
    LET cls == initial_clauses(puzzle) IN add_clauses(self, cls, 1, Len(cls))

\* validation that lets the value 10 through: 0 <= x <= 10
validate_puzzle_loose(puzzle) ==
    IF Len(puzzle) # 9 THEN FALSE
    ELSE \A r \in 1..Len(puzzle) :
             /\ Len(puzzle[r]) = 9
             /\ \A c \in 1..Len(puzzle[r]) : 0 <= puzzle[r][c] /\ puzzle[r][c] <= 10

validate_puzzle(puzzle) ==
    IF Len(puzzle) # 9 THEN FALSE
    ELSE \A r \in 1..Len(puzzle) :
             /\ Len(puzzle[r]) = 9
             /\ \A c \in 1..Len(puzzle[r]) : 0 <= puzzle[r][c] /\ puzzle[r][c] <= 9

\* the five encode_* calls of encode_puzzle, in the order of the source
encode_all(self, puzzle) ==
    LET s1 == encode_cell_constraints(self)
        s2 == IF Len(s1.clauses) >= 0 THEN encode_row_constraints(s1) ELSE s1
        s3 == IF Len(s2.clauses) >= 0 THEN encode_col_constraints(s2) ELSE s2
        s4 == IF Len(s3.clauses) >= 0 THEN encode_block_constraints(s3) ELSE s3
    IN  IF Len(s4.clauses) >= 0 THEN encode_initial_values(s4, puzzle) ELSE s4

\* str(n) for an integer: an optional sign and the decimal digits, as characters
DigitChars == <<"0", "1", "2", "3", "4", "5", "6", "7", "8", "9">>

RECURSIVE str_nat(_)
str_nat(n) ==
    IF n < 10 THEN <<DigitChars[n + 1]>>
    ELSE Append(str_nat(n \div 10), DigitChars[(n % 10) + 1])

str(n) == IF n < 0 THEN <<"-">> \o str_nat(-n) ELSE str_nat(n)

\* int(token): the value of a decimal token (an optional sign, then digits)
DigitValues ==
    ("0" :> 0) @@ ("1" :> 1) @@ ("2" :> 2) @@ ("3" :> 3) @@ ("4" :> 4) @@
    ("5" :> 5) @@ ("6" :> 6) @@ ("7" :> 7) @@ ("8" :> 8) @@ ("9" :> 9)

DigitValue(ch) == DigitValues[ch]

IsDigit(ch) == ch \in DOMAIN DigitValues

RECURSIVE int_nat(_, _)
int_nat(token, k) ==
    IF k = 0 THEN 0 ELSE 10 * int_nat(token, k - 1) + DigitValue(token[k])

\* int() raises ValueError on anything else
IsIntToken(token) ==
    LET body == IF token # <<>> /\ token[1] = "-" THEN Tail(token) ELSE token
    IN  body # <<>> /\ \A k \in 1..Len(body) : IsDigit(body[k])

int(token) ==
    IF token[1] = "-" THEN -int_nat(Tail(token), Len(token) - 1)
    ELSE int_nat(token, Len(token))

(***************************************************************************)
(* A text file is the sequence of its lines; a line is kept as the         *)
(* sequence of its whitespace-separated tokens, each token a sequence of    *)
(* characters.  " ".join(...) + " 0\n" and line.strip().split() are then    *)
(* the making and the reading of that token sequence.                      *)
(***************************************************************************)
\* " ".join(map(str, clause)) + " 0\n"
clause_line(clause) == [k \in 1..(Len(clause) + 1) |->
                           IF k <= Len(clause) THEN str(clause[k]) ELSE str(0)]

\* SudokuEncoder.write_dimacs: comment line, header line, one line per clause
write_dimacs(self) ==
    << <<<<"c">>, <<"E", "n", "c", "o", "d", "e", "d">>, <<"S", "u", "d", "o", "k", "u">>,
         <<"p", "u", "z", "z", "l", "e">>>>,
       <<<<"p">>, <<"c", "n", "f">>, str(size * size * size), str(self.num_clauses)>> >>
    \o [i \in 1..Len(self.clauses) |-> clause_line(self.clauses[i])]

\* the clause count declared by the header line of a written file
HeaderCount(file) == int(file[2][4])

\* the variable count declared by the header line of a written file
HeaderVars(file) == int(file[2][3])

(***************************************************************************)
(* DPLLSolver                                                              *)
(***************************************************************************)
\* DPLLSolver.__init__: CNF() is empty, no clause counted
NewSolver == [cnf |-> <<>>, propagated_clauses |-> 0]

\* var -= 1; num = var % 9 + 1; col = (var // 9) % 9; row = var // 81
\* (the same four lines stand in read_dimacs, lines 26-29)
decode_var(id) ==
    LET var == id - 1
    IN  [num |-> (var % 9) + 1, col |-> (var \div 9) % 9, row |-> var \div 81]

\* line.startswith(ch): the first character of the line
startswith(line, ch) == line # <<>> /\ line[1] # <<>> /\ line[1][1] = ch

\* the body of the loop of read_dimacs for one line; st is the grid read so
\* far and the exception raised, if any (int() raises ValueError on a token
\* that is no integer, sudoku[row] raises IndexError for row >= 9)
read_line(st, line) ==
    IF st.error # "none" \/ startswith(line, "c") \/ startswith(line, "p") THEN st
    ELSE IF \E k \in 1..Len(line) : ~IsIntToken(line[k])
    THEN [st EXCEPT !.error = "ValueError"]
    ELSE LET nums == [k \in 1..Len(line) |-> int(line[k])]
         IN  IF Len(nums) = 1 /\ nums[1] > 0
             THEN LET d == decode_var(nums[1])
                  IN  IF d.row >= 9 THEN [st EXCEPT !.error = "IndexError"]
                      ELSE [st EXCEPT !.grid = SetCell(st.grid, d.row, d.col, d.num)]
             ELSE st

\* for line in f: lines lo..hi in order
RECURSIVE read_lines(_, _, _, _)
read_lines(st, file, lo, hi) ==
    IF lo > hi THEN st
    ELSE IF lo = hi THEN read_line(st, file[lo])
    ELSE LET mid == (lo + hi) \div 2
             done == read_lines(st, file, lo, mid)
         IN  IF done.error = "none" THEN read_lines(done, file, mid + 1, hi) ELSE done

\* DPLLSolver.read_dimacs: [grid, error]
read_dimacs(file) == read_lines([grid |-> ZeroGrid, error |-> "none"], file, 1, Len(file))

\* self.cnf.append(clause); self._count_clause()
cnf_append(self, clause) ==
    [cnf |-> Append(self.cnf, clause), propagated_clauses |-> self.propagated_clauses + 1]

RECURSIVE cnf_append_all(_, _, _, _)
cnf_append_all(self, cls, lo, hi) ==
    IF lo > hi THEN self
    ELSE IF lo = hi THEN cnf_append(self, cls[lo])
    ELSE LET mid == (lo + hi) \div 2
             done == cnf_append_all(self, cls, lo, mid)
         IN  IF Len(done.cnf) >= 0 THEN cnf_append_all(done, cls, mid + 1, hi) ELSE done

\* the clauses of one cell in add_sudoku_clauses (lines 54-63)
solver_cell_clauses(row, col) ==
    <<[k \in 1..9 |-> get_var(row, col, Range(1, 10)[k])]>>
    \o [p \in 1..Len(digit_pairs) |->
           <<-get_var(row, col, digit_pairs[p][1]), -get_var(row, col, digit_pairs[p][2])>>]

RECURSIVE solver_cell_loop(_, _, _)
solver_cell_loop(self, lo, hi) ==
    IF lo > hi THEN self
    ELSE IF lo = hi
    THEN LET cls == solver_cell_clauses(lo \div 9, lo % 9)
         IN  cnf_append_all(self, cls, 1, Len(cls))
    ELSE LET mid == (lo + hi) \div 2
             done == solver_cell_loop(self, lo, mid)
         IN  IF Len(done.cnf) >= 0 THEN solver_cell_loop(done, mid + 1, hi) ELSE done

\* row constraints of add_sudoku_clauses (lines 66-69)
solver_row_clauses ==
    [k \in 1..81 |->
        [c \in 1..9 |-> get_var((k - 1) \div 9, Range(0, 9)[c], ((k - 1) % 9) + 1)]]

\* column constraints of add_sudoku_clauses (lines 72-75)
solver_col_clauses ==
    [k \in 1..81 |->
        [r \in 1..9 |-> get_var(Range(0, 9)[r], (k - 1) \div 9, ((k - 1) % 9) + 1)]]

\* block constraints of add_sudoku_clauses (lines 78-92)
solver_block_clauses ==
    [k \in 1..81 |->
        LET block_row == (k - 1) \div 27
            block_col == ((k - 1) \div 9) % 3
            num == ((k - 1) % 9) + 1
        IN  [m \in 1..9 |-> get_var(block_row * 3 + ((m - 1) \div 3),
                                    block_col * 3 + ((m - 1) % 3), num)]]

\* initial assignments of add_sudoku_clauses (lines 95-100)
solver_initial_clauses(initial_grid) ==
    LET cells == SelectSeq(Range(0, 81), LAMBDA k : Cell(initial_grid, k \div 9, k % 9) # 0)
    IN  [i \in 1..Len(cells) |->
            <<get_var(cells[i] \div 9, cells[i] % 9,
                      Cell(initial_grid, cells[i] \div 9, cells[i] % 9))>>]

\* add_sudoku_clauses with the column group generated before the row group
add_sudoku_clauses_swapped(self, initial_grid) ==
    LET s1 == solver_cell_loop(self, 0, 80)
        s2 == IF Len(s1.cnf) >= 0 THEN cnf_append_all(s1, solver_col_clauses, 1, 81) ELSE s1
        s3 == IF Len(s2.cnf) >= 0 THEN cnf_append_all(s2, solver_row_clauses, 1, 81) ELSE s2
        s4 == IF Len(s3.cnf) >= 0 THEN cnf_append_all(s3, solver_block_clauses, 1, 81) ELSE s3
        cls == solver_initial_clauses(initial_grid)
    IN  IF Len(s4.cnf) >= 0 THEN cnf_append_all(s4, cls, 1, Len(cls)) ELSE s4

\* DPLLSolver.add_sudoku_clauses
add_sudoku_clauses(self, initial_grid) ==
    LET s1 == solver_cell_loop(self, 0, 80)
        s2 == IF Len(s1.cnf) >= 0 THEN cnf_append_all(s1, solver_row_clauses, 1, 81) ELSE s1
        s3 == IF Len(s2.cnf) >= 0 THEN cnf_append_all(s2, solver_col_clauses, 1, 81) ELSE s2
        s4 == IF Len(s3.cnf) >= 0 THEN cnf_append_all(s3, solver_block_clauses, 1, 81) ELSE s3
        cls == solver_initial_clauses(initial_grid)
    IN  IF Len(s4.cnf) >= 0 THEN cnf_append_all(s4, cls, 1, Len(cls)) ELSE s4

\* extraction in which a cell that is already set is left alone (first write wins)
extract_step_first(st, var) ==
    IF st.error # "none" \/ ~(var > 0) THEN st
    ELSE LET d == decode_var(var)
         IN  IF d.row >= 9 THEN [st EXCEPT !.error = "IndexError"]
             ELSE IF Cell(st.grid, d.row, d.col) # 0 THEN st
             ELSE [st EXCEPT !.grid = SetCell(st.grid, d.row, d.col, d.num)]

\* the body of the loop of extract_solution for one literal of the model
\* (solution[row] raises IndexError for row >= 9)
extract_step(st, var) ==
    IF st.error # "none" \/ ~(var > 0) THEN st
    ELSE LET d == decode_var(var)
         IN  IF d.row >= 9 THEN [st EXCEPT !.error = "IndexError"]
             ELSE [st EXCEPT !.grid = SetCell(st.grid, d.row, d.col, d.num)]

\* for var in model: literals lo..hi in order
RECURSIVE extract_range(_, _, _, _)
extract_range(st, model, lo, hi) ==
    IF lo > hi THEN st
    ELSE IF lo = hi THEN extract_step(st, model[lo])
    ELSE LET mid == (lo + hi) \div 2
             done == extract_range(st, model, lo, mid)
         IN  IF done.error = "none" THEN extract_range(done, model, mid + 1, hi) ELSE done

\* DPLLSolver.extract_solution: [grid, error]
extract_solution(model) ==
    extract_range([grid |-> ZeroGrid, error |-> "none"], model, 1, Len(model))

\* DPLLSolver.write_dimacs: comment, header with len(self.cnf.clauses), then
\* one line "<var> 0" per cell
solver_write_dimacs(self, solution) ==
    << <<<<"c">>, <<"D", "P", "L", "L">>, <<"S", "u", "d", "o", "k", "u">>,
         <<"S", "o", "l", "u", "t", "i", "o", "n">>>>,
       <<<<"p">>, <<"c", "n", "f">>, str(size * size * size), str(Len(self.cnf))>> >>
    \o [k \in 1..(size * size) |->
           LET row == (k - 1) \div size
               col == (k - 1) % size
               num == Cell(solution, row, col)
           IN  <<str(row * 81 + col * 9 + num), str(0)>>]

(***************************************************************************)
(* The solving collaborator (pysat's Solver, glucose3) is not code of the  *)
(* repository.  What the driver relies on is its contract: solve() is True *)
(* with get_model() a satisfying assignment, or False when there is none,  *)
(* or it raises.  A model is the list of the 729 literals, model[v] being  *)
(* v or -v.  Satisfiable decides the contract's "there is none" by a       *)
(* complete search: unit propagation, then a case split on the literals of *)
(* one clause that is not yet satisfied.                                   *)
(***************************************************************************)
Abs(l) == IF l < 0 THEN -l ELSE l

\* the model satisfies every clause
Satisfies(model, cls) ==
    \A i \in 1..Len(cls) : \E k \in 1..Len(cls[i]) : model[Abs(cls[i][k])] = cls[i][k]

\* a partial assignment is the set of the literals made true so far
ClauseSat(lits, c) == \E k \in 1..Len(c) : c[k] \in lits

OpenLits(lits, c) ==
    {c[k] : k \in {j \in 1..Len(c) : c[j] \notin lits /\ -c[j] \notin lits}}

\* the clauses in which each variable occurs
RECURSIVE Occurrences(_, _, _)
Occurrences(cls, lo, hi) ==
    IF lo = hi THEN [v \in {Abs(cls[lo][k]) : k \in 1..Len(cls[lo])} |-> {lo}]
    ELSE LET mid == (lo + hi) \div 2
             a == Occurrences(cls, lo, mid)
             b == Occurrences(cls, mid + 1, hi)
         IN  [v \in DOMAIN a |-> a[v] \cup (IF v \in DOMAIN b THEN b[v] ELSE {})] @@ b

\* unit propagation from the clauses idxs, to a fixed point: ok is FALSE when
\* a clause has become false; seen collects the clauses looked at
RECURSIVE Propagate(_, _, _, _, _)
Propagate(lits, cls, occ, idxs, seen) ==
    LET open == {<<i, OpenLits(lits, cls[i])>> : i \in {j \in idxs : ~ClauseSat(lits, cls[j])}}
        units == UNION {p[2] : p \in {q \in open : Cardinality(q[2]) = 1}}
    IN  IF \E p \in open : p[2] = {} THEN [ok |-> FALSE, lits |-> lits, seen |-> seen]
        ELSE IF units = {} THEN [ok |-> TRUE, lits |-> lits, seen |-> seen \cup idxs]
        ELSE IF \E l \in units : -l \in units THEN [ok |-> FALSE, lits |-> lits, seen |-> seen]
        ELSE Propagate(lits \cup units, cls, occ,
                       UNION {occ[Abs(l)] : l \in units}, seen \cup idxs)

\* among the clauses idxs, one that is not satisfied, whose open literals are
\* all positive, with the fewest open literals (the first such clause); 0
\* when there is none
PickClause(lits, cls, idxs) ==
    LET open == {<<Cardinality(OpenLits(lits, cls[i])), i>> :
                    i \in {j \in idxs : /\ ~ClauseSat(lits, cls[j])
                                         /\ \A l \in OpenLits(lits, cls[j]) : l > 0}}
    IN  IF open = {} THEN 0
        ELSE (CHOOSE p \in open :
                 \A q \in open : p[1] < q[1] \/ (p[1] = q[1] /\ p[2] <= q[2]))[2]

\* some total assignment extending lits satisfies cls.  After propagation no
\* clause is false.  When every clause that is not satisfied has an open
\* negative literal, making every open variable false satisfies them all;
\* otherwise a model must make true one open literal of the picked clause.
RECURSIVE Search(_, _, _, _)
Search(lits, cls, occ, idxs) ==
    LET p == Propagate(lits, cls, occ, idxs, {})
    IN  IF ~p.ok THEN FALSE
        ELSE LET near == PickClause(p.lits, cls, p.seen)
                 pick == IF near # 0 THEN near ELSE PickClause(p.lits, cls, 1..Len(cls))
             IN  IF pick = 0 THEN TRUE
                 ELSE \E l \in OpenLits(p.lits, cls[pick]) :
                          Search(p.lits \cup {l}, cls, occ, occ[Abs(l)])

\* the clause set has a satisfying assignment
Satisfiable(cls) ==
    IF cls = <<>> THEN TRUE
    ELSE Search({}, cls, Occurrences(cls, 1, Len(cls)), 1..Len(cls))

(***************************************************************************)
(* Inputs: the grids handed to the encoder, the files found by the solver  *)
(* and the models the collaborator may return.                             *)
(***************************************************************************)
\* the example puzzle of encode_sudoku.py
Classic ==
    << <<5, 3, 0, 0, 7, 0, 0, 0, 0>>,
       <<6, 0, 0, 1, 9, 5, 0, 0, 0>>,
       <<0, 9, 8, 0, 0, 0, 0, 6, 0>>,
       <<8, 0, 0, 0, 6, 0, 0, 0, 3>>,
       <<4, 0, 0, 8, 0, 3, 0, 0, 1>>,
       <<7, 0, 0, 0, 2, 0, 0, 0, 6>>,
       <<0, 6, 0, 0, 0, 0, 2, 8, 0>>,
       <<0, 0, 0, 4, 1, 9, 0, 0, 5>>,
       <<0, 0, 0, 0, 8, 0, 0, 7, 9>> >>

\* its solution
Solved ==
    << <<5, 3, 4, 6, 7, 8, 9, 1, 2>>,
       <<6, 7, 2, 1, 9, 5, 3, 4, 8>>,
       <<1, 9, 8, 3, 4, 2, 5, 6, 7>>,
       <<8, 5, 9, 7, 6, 1, 4, 2, 3>>,
       <<4, 2, 6, 8, 5, 3, 7, 9, 1>>,
       <<7, 1, 3, 9, 2, 4, 8, 5, 6>>,
       <<9, 6, 1, 5, 3, 7, 2, 8, 4>>,
       <<2, 8, 7, 4, 1, 9, 6, 3, 5>>,
       <<3, 4, 5, 2, 8, 6, 1, 7, 9>> >>

\* another solved grid: every digit d of Solved replaced by d % 9 + 1
Relabelled == [r \in 1..9 |-> [c \in 1..9 |-> (Solved[r][c] % 9) + 1]]

\* Solved with the cells (0,8) and (2,8) exchanged: columns and blocks keep
\* their digits, rows 0 and 2 do not
RowBroken == [Solved EXCEPT ![1][9] = Solved[3][9], ![3][9] = Solved[1][9]]

\* Solved with the cells (8,0) and (8,2) exchanged: rows and blocks keep their
\* digits, columns 0 and 2 do not
ColBroken == [Solved EXCEPT ![9][1] = Solved[9][3], ![9][3] = Solved[9][1]]

\* Solved with one cell left without a digit
CellBlank == [Solved EXCEPT ![5][5] = 0]

\* Classic restricted to its first k rows
Prefix(k) == [r \in 1..9 |-> IF r <= k THEN Classic[r] ELSE ZeroGrid[r]]

\* grids with the same digit given twice in a row
DupRowA == [ZeroGrid EXCEPT ![1] = <<5, 5, 0, 0, 0, 0, 0, 0, 0>>]
DupRowB == [ZeroGrid EXCEPT ![1] = <<0, 0, 0, 0, 7, 0, 0, 0, 7>>]
DupRowC == [ZeroGrid EXCEPT ![5] = <<4, 0, 0, 0, 5, 3, 7, 4, 0>>]
DupRowD == [Solved EXCEPT ![1][2] = 5]

\* grids that are not 9 rows of 9 values in 0..9
EightRows == SubSeq(Classic, 1, 8)
TenRows == Append(Classic, ZeroGrid[1])
ShortRow == [Classic EXCEPT ![3] = SubSeq(Classic[3], 1, 8)]
LongRow == [Classic EXCEPT ![9] = Append(Classic[9], 1)]
ValueTen == [Classic EXCEPT ![2][2] = 10]
ValueNeg == [Classic EXCEPT ![9][1] = -1]

InvalidPuzzles == {EightRows, TenRows, ShortRow, LongRow, ValueTen, ValueNeg}

DupRowPuzzles == {DupRowA, DupRowB, DupRowC, DupRowD}

\* the grids handed to the method calls on one encoder instance
EncoderPuzzles == {Classic} \cup InvalidPuzzles

\* the grids handed to encode_initial_values called on its own
InitialPuzzles == {Classic, DupRowA}

\* the grids handed to repeated encode_puzzle calls
RepeatPuzzles == {ZeroGrid, Classic, Solved, DupRowA, ValueTen, EightRows,
                  ShortRow, ValueNeg, Prefix(1), Prefix(2), Prefix(3), Prefix(4)}

\* the grids of the encode-then-solve pipeline
PipelinePuzzles ==
    {Prefix(k) : k \in 0..9} \cup {Solved, Relabelled} \cup DupRowPuzzles \cup InvalidPuzzles

\* input files not written by the encoder: bare variable lines (no
\* terminating 0), as read_dimacs looks for them
HandLine(n) == <<str(n)>>

HandFiles ==
    { \* (0,0)=5 and (0,1)=3, as in Classic
      <<HandLine(5), HandLine(12)>>,
      \* row 0 = 5 5 1 2 3 4 6 . .
      <<HandLine(5), HandLine(14), HandLine(19), HandLine(29), HandLine(39),
        HandLine(49), HandLine(60)>>,
      \* a cell written twice, then a clause line and an empty line
      <<HandLine(1), HandLine(5), <<str(-1), str(-2), str(0)>>, <<>>>>,
      \* a variable beyond 729
      <<HandLine(5), HandLine(730)>>,
      \* a token that is no integer
      <<HandLine(5), <<<<"x">>>>>> }

\* the assignment that makes true exactly the (row, col, digit) of the grid
ModelOf(grid) ==
    LET true == {get_var(k \div 9, k % 9, Cell(grid, k \div 9, k % 9)) :
                    k \in {j \in 0..80 : Cell(grid, j \div 9, j % 9) # 0}}
    IN  [v \in 1..(size * size * size) |-> IF v \in true THEN v ELSE -v]

\* the models the collaborator is tried with: solved grids, grids that break
\* one rule each, and the assignment that makes every variable true
CandidateModels ==
    {ModelOf(Solved), ModelOf(Relabelled), ModelOf(RowBroken), ModelOf(ColBroken),
     ModelOf(CellBlank), [v \in 1..(size * size * size) |-> v]}

\* the outcomes of solver.solve() on the clause set: any candidate that
\* satisfies it may be the model; False only when no assignment satisfies
\* it; an exception at any time
SolverOutcomes(cls) ==
    LET models == {m \in CandidateModels : Satisfies(m, cls)}
    IN  {[kind |-> "sat", model |-> m] : m \in models}
        \cup (IF models = {} /\ ~Satisfiable(cls)
              THEN {[kind |-> "unsat", model |-> <<>>]} ELSE {})
        \cup {[kind |-> "fault", model |-> <<>>]}

\* the literals handed to extract_solution
LiteralPool == {1, 2, 9, 10, 729, -1, -10, 730}

(***************************************************************************)
(* State.                                                                  *)
(***************************************************************************)
VARIABLES
    idx,       \* one use of the variable numbering: [row, col, num, id, back]
    enc,       \* the SudokuEncoder instance: [clauses, num_clauses]
    call,      \* the last call on the encoder: [op, puzzle, ret]
    calls,     \* the number of calls made on the encoder
    cnf_file,  \* the clause file: [exists, by, lines]
    slv,       \* the DPLLSolver instance: [cnf, propagated_clauses]
    run,       \* the last call on the solver: [op, outcome, result]
    sol_file,  \* the solution file: [exists, lines]
    dec        \* one use of extract_solution: [model, done, out]

vars == <<idx, enc, call, calls, cnf_file, slv, run, sol_file, dec>>

\* Python values of mixed type are kept apart by a tag: a returned grid is
\* Grid(g), None is NoneValue, a raised exception is Raised(name)
NoneValue == [is |-> "None", grid |-> <<>>]

Grid(g) == [is |-> "grid", grid |-> g]

Raised(name) == [is |-> name, grid |-> <<>>]

NoFile == [exists |-> FALSE, by |-> "nobody", lines |-> <<>>]

NoCall == [op |-> "none", puzzle |-> <<>>, ret |-> "None"]

NoRun == [op |-> "none", outcome |-> "none", result |-> NoneValue]

NoIdx == [row |-> 0, col |-> 0, num |-> 1, id |-> 0, back |-> <<>>]

NoDec == [model |-> <<>>, done |-> FALSE, out |-> [grid |-> ZeroGrid, error |-> "none"]]

Init ==
    /\ idx = NoIdx
    /\ enc = NewEncoder
    /\ call = NoCall
    /\ calls = 0
    /\ cnf_file = NoFile
    /\ slv = NewSolver
    /\ run = NoRun
    /\ sol_file = [exists |-> FALSE, lines |-> <<>>]
    /\ dec = NoDec

(***************************************************************************)
(* The variable numbering.                                                 *)
(***************************************************************************)
InitIndexer ==
    /\ \E row \in 0..8, col \in 0..8, num \in 1..9 :
           idx = [row |-> row, col |-> col, num |-> num, id |-> 0, back |-> <<>>]
    /\ enc = NewEncoder /\ call = NoCall /\ calls = 0 /\ cnf_file = NoFile
    /\ slv = NewSolver /\ run = NoRun /\ sol_file = [exists |-> FALSE, lines |-> <<>>]
    /\ dec = NoDec

\* get_var(row, col, num)
GetVar ==
    /\ idx.id = 0
    /\ idx' = [idx EXCEPT !.id = get_var(idx.row, idx.col, idx.num)]
    /\ UNCHANGED <<enc, call, calls, cnf_file, slv, run, sol_file, dec>>

\* the inverse arithmetic of extract_solution and read_dimacs on that id
DecodeVar ==
    /\ idx.id # 0 /\ idx.back = <<>>
    /\ idx' = [idx EXCEPT !.back = LET d == decode_var(idx.id) IN <<d.row, d.col, d.num>>]
    /\ UNCHANGED <<enc, call, calls, cnf_file, slv, run, sol_file, dec>>

NextIndexer == GetVar \/ DecodeVar

SpecIndexer == InitIndexer /\ [][NextIndexer]_vars

(***************************************************************************)
(* Calls on one SudokuEncoder instance.                                    *)
(***************************************************************************)
EncodeCellConstraints ==
    /\ calls < MaxCalls
    /\ enc' = encode_cell_constraints(enc)
    /\ call' = [op |-> "encode_cell_constraints", puzzle |-> <<>>, ret |-> "None"]
    /\ calls' = calls + 1
    /\ UNCHANGED <<idx, cnf_file, slv, run, sol_file, dec>>

EncodeRowConstraints ==
    /\ calls < MaxCalls
    /\ enc' = encode_row_constraints(enc)
    /\ call' = [op |-> "encode_row_constraints", puzzle |-> <<>>, ret |-> "None"]
    /\ calls' = calls + 1
    /\ UNCHANGED <<idx, cnf_file, slv, run, sol_file, dec>>

EncodeColConstraints ==
    /\ calls < MaxCalls
    /\ enc' = encode_col_constraints(enc)
    /\ call' = [op |-> "encode_col_constraints", puzzle |-> <<>>, ret |-> "None"]
    /\ calls' = calls + 1
    /\ UNCHANGED <<idx, cnf_file, slv, run, sol_file, dec>>

EncodeBlockConstraints ==
    /\ calls < MaxCalls
    /\ enc' = encode_block_constraints(enc)
    /\ call' = [op |-> "encode_block_constraints", puzzle |-> <<>>, ret |-> "None"]
    /\ calls' = calls + 1
    /\ UNCHANGED <<idx, cnf_file, slv, run, sol_file, dec>>

EncodeInitialValues(puzzle) ==
    /\ calls < MaxCalls
    /\ enc' = encode_initial_values(enc, puzzle)
    /\ call' = [op |-> "encode_initial_values", puzzle |-> puzzle, ret |-> "None"]
    /\ calls' = calls + 1
    /\ UNCHANGED <<idx, cnf_file, slv, run, sol_file, dec>>

\* write_dimacs(f) on the clause file
WriteDimacs ==
    /\ calls < MaxCalls
    /\ cnf_file' = [exists |-> TRUE, by |-> "write_dimacs", lines |-> write_dimacs(enc)]
    /\ call' = [op |-> "write_dimacs", puzzle |-> <<>>, ret |-> "None"]
    /\ calls' = calls + 1
    /\ UNCHANGED <<idx, enc, slv, run, sol_file, dec>>

\* encode_puzzle(puzzle, output_path): the encoder, the file at output_path
\* and the value returned
encode_puzzle(self, file, puzzle) ==
    IF ~validate_puzzle(puzzle)
    THEN [self |-> self, file |-> file, ret |-> "False"]
    ELSE LET done == encode_all(self, puzzle)
         IN  [self |-> done,
              file |-> [exists |-> TRUE, by |-> "encode_puzzle", lines |-> write_dimacs(done)],
              ret |-> "True"]

EncodePuzzle(puzzle) ==
    /\ calls < MaxCalls
    /\ \E res \in {encode_puzzle(enc, cnf_file, puzzle)} :
           /\ enc' = res.self
           /\ cnf_file' = res.file
           /\ call' = [op |-> "encode_puzzle", puzzle |-> puzzle, ret |-> res.ret]
    /\ calls' = calls + 1
    /\ UNCHANGED <<idx, slv, run, sol_file, dec>>

NextEncoder ==
    \/ EncodeCellConstraints
    \/ EncodeRowConstraints
    \/ EncodeColConstraints
    \/ EncodeBlockConstraints
    \/ \E puzzle \in InitialPuzzles : EncodeInitialValues(puzzle)
    \/ \E puzzle \in EncoderPuzzles : EncodePuzzle(puzzle)
    \/ WriteDimacs

SpecEncoder == Init /\ [][NextEncoder]_vars

\* encode_puzzle called again and again on the same instance
NextRepeat == \E puzzle \in RepeatPuzzles : EncodePuzzle(puzzle)

SpecRepeat == Init /\ [][NextRepeat]_vars

(***************************************************************************)
(* The pipeline of the two programs: a fresh encoder writes the clause     *)
(* file (or the file comes from elsewhere), then a fresh DPLLSolver reads  *)
(* it.                                                                     *)
(***************************************************************************)
PipelineEncode(puzzle) ==
    /\ calls = 0 /\ ~cnf_file.exists
    /\ EncodePuzzle(puzzle)

\* an input file put in place by something other than the encoder
PutFile(lines) ==
    /\ calls = 0 /\ ~cnf_file.exists
    /\ cnf_file' = [exists |-> TRUE, by |-> "hand", lines |-> lines]
    /\ UNCHANGED <<idx, enc, call, calls, slv, run, sol_file, dec>>

\* DPLLSolver.read_dimacs(filename) called on its own
ReadDimacs ==
    /\ cnf_file.exists /\ run.op = "none"
    /\ \E r \in {read_dimacs(cnf_file.lines)} :
           run' = [op |-> "read_dimacs", outcome |-> r.error,
                   result |-> IF r.error = "none" THEN Grid(r.grid) ELSE Raised(r.error)]
    /\ UNCHANGED <<idx, enc, call, calls, cnf_file, slv, sol_file, dec>>

\* DPLLSolver.add_sudoku_clauses(grid) called on its own, on a fresh solver,
\* with the grid the encoder was given
AddSudokuClauses ==
    /\ call.op = "encode_puzzle" /\ call.ret = "True" /\ run.op = "none"
    /\ slv' = add_sudoku_clauses(slv, call.puzzle)
    /\ run' = [op |-> "add_sudoku_clauses", outcome |-> "none", result |-> NoneValue]
    /\ UNCHANGED <<idx, enc, call, calls, cnf_file, sol_file, dec>>

\* what solve() returns: the solution when solver.solve() is True; None when
\* it is False (line 126) and None when anything raised in the try block
\* (lines 127-129)
solve_result(kind, solution) ==
    IF kind = "sat" /\ solution.error = "none" THEN Grid(solution.grid) ELSE NoneValue

\* DPLLSolver.solve(input_file, output_file): for each outcome of the
\* collaborator, the solver, what solve returns and the file at output_file
solve(self, input, output) ==
    LET r == read_dimacs(input.lines)
    IN  IF r.error # "none"
        THEN \* read_dimacs stands before the try block: the exception leaves solve
             {[self |-> self, outcome |-> "raised", result |-> Raised(r.error),
               output |-> output]}
        ELSE LET done == add_sudoku_clauses(self, r.grid)
             IN  {LET solution == IF o.kind = "sat" THEN extract_solution(o.model)
                                  ELSE [grid |-> ZeroGrid, error |-> "none"]
                  IN  [self |-> done,
                       outcome |-> o.kind,
                       result |-> solve_result(o.kind, solution),
                       output |-> IF o.kind = "sat" /\ solution.error = "none"
                                  THEN [exists |-> TRUE,
                                        lines |-> solver_write_dimacs(done, solution.grid)]
                                  ELSE output]
                  : o \in SolverOutcomes(done.cnf)}

\* solve on a fresh solver
Solve ==
    /\ cnf_file.exists /\ run.op = "none"
    /\ \E res \in solve(slv, cnf_file, sol_file) :
           /\ slv' = res.self
           /\ run' = [op |-> "solve", outcome |-> res.outcome, result |-> res.result]
           /\ sol_file' = res.output
    /\ UNCHANGED <<idx, enc, call, calls, cnf_file, dec>>

NextPipeline ==
    \/ \E puzzle \in PipelinePuzzles : PipelineEncode(puzzle)
    \/ \E lines \in HandFiles : PutFile(lines)
    \/ ReadDimacs
    \/ AddSudokuClauses
    \/ Solve

SpecPipeline == Init /\ [][NextPipeline]_vars

(***************************************************************************)
(* extract_solution on lists of literals.                                  *)
(***************************************************************************)
InitDecoder ==
    /\ \E n \in 0..MaxModelLen : \E model \in [1..n -> LiteralPool] :
           dec = [model |-> model, done |-> FALSE,
                  out |-> [grid |-> ZeroGrid, error |-> "none"]]
    /\ idx = NoIdx /\ enc = NewEncoder /\ call = NoCall /\ calls = 0 /\ cnf_file = NoFile
    /\ slv = NewSolver /\ run = NoRun /\ sol_file = [exists |-> FALSE, lines |-> <<>>]

ExtractSolution ==
    /\ ~dec.done
    /\ dec' = [dec EXCEPT !.done = TRUE, !.out = extract_solution(dec.model)]
    /\ UNCHANGED <<idx, enc, call, calls, cnf_file, slv, run, sol_file>>

NextDecoder == ExtractSolution

SpecDecoder == InitDecoder /\ [][NextDecoder]_vars

\* every action of the model
Next == NextIndexer \/ NextEncoder \/ NextRepeat \/ NextPipeline \/ NextDecoder

Spec == Init /\ [][Next]_vars

(***************************************************************************)
(* Properties.                                                             *)
(***************************************************************************)
\* exactly 9 rows of exactly 9 values, each in 0..9
WellFormed(puzzle) ==
    /\ Len(puzzle) = 9
    /\ \A r \in 1..9 : Len(puzzle[r]) = 9 /\ \A c \in 1..9 : puzzle[r][c] \in 0..9

\* the number of nonzero cells of a well-formed grid
NonZero(puzzle) == Cardinality({k \in 0..80 : Cell(puzzle, k \div 9, k % 9) # 0})

\* every row, column and 3x3 block holds each of 1..9 (exactly once, there
\* being nine cells in each)
IsSolvedGrid(g) ==
    /\ \A r \in 0..8 : {Cell(g, r, c) : c \in 0..8} = 1..9
    /\ \A c \in 0..8 : {Cell(g, r, c) : r \in 0..8} = 1..9
    /\ \A br \in 0..2, bc \in 0..2 :
           {Cell(g, br * 3 + i, bc * 3 + j) : i \in 0..2, j \in 0..2} = 1..9

\* every given cell of puzzle has its value in g
KeepsGivens(puzzle, g) ==
    \A r \in 0..8, c \in 0..8 : Cell(puzzle, r, c) # 0 => Cell(g, r, c) = Cell(puzzle, r, c)

\* the puzzle has a solution (among the solved grids of the model)
HasSolution(puzzle) ==
    \E g \in {Solved, Relabelled} : IsSolvedGrid(g) /\ KeepsGivens(puzzle, g)

\* some nonzero digit is given twice in one row
HasRowDuplicate(puzzle) ==
    \E r \in 0..8, c1 \in 0..8, c2 \in 0..8 :
        c1 < c2 /\ Cell(puzzle, r, c1) # 0 /\ Cell(puzzle, r, c1) = Cell(puzzle, r, c2)

\* C1: for every row, col in 0..8 and digit in 1..9 the id row*81 + col*9 +
\* digit lies in 1..729, no other triple has the same id, and the inverse
\* arithmetic of extract_solution / read_dimacs gives back (row, col, digit).
C1_Bijection ==
    /\ idx.id # 0 =>
           /\ idx.id = idx.row * 81 + idx.col * 9 + idx.num
           /\ idx.id \in 1..729
           /\ \A row \in 0..8, col \in 0..8, num \in 1..9 :
                  <<row, col, num>> # <<idx.row, idx.col, idx.num>>
                      => get_var(row, col, num) # idx.id
    /\ idx.back # <<>> => idx.back = <<idx.row, idx.col, idx.num>>

C1_Witness == idx.id = 729 /\ idx.back = <<8, 8, 9>>

\* C2: every successful encode_puzzle call on a grid with k nonzero cells,
\* whatever encode_puzzle calls came before on the same encoder, leaves a
\* clause set, a counter and a header count of exactly 3240 + k.
C2_ClauseCount ==
    (call.op = "encode_puzzle" /\ call.ret = "True") =>
        /\ Len(enc.clauses) = 3240 + NonZero(call.puzzle)
        /\ enc.num_clauses = 3240 + NonZero(call.puzzle)
        /\ HeaderCount(cnf_file.lines) = 3240 + NonZero(call.puzzle)

\* C3: in every state of an encoder num_clauses is the length of clauses,
\* and a written file declares 729 variables and as many clauses as it has
\* clause lines after its two leading lines.
C3_CounterMatches ==
    /\ enc.num_clauses = Len(enc.clauses)
    /\ cnf_file.exists =>
           /\ HeaderVars(cnf_file.lines) = 729
           /\ HeaderCount(cnf_file.lines) = Len(cnf_file.lines) - 2

C3_Witness ==
    /\ call.op = "write_dimacs" /\ cnf_file.exists
    /\ enc.num_clauses > 0 /\ HeaderCount(cnf_file.lines) = enc.num_clauses

\* C4: encode_puzzle on a grid that is not 9 rows of 9 values in 0..9
\* returns False and leaves clauses, num_clauses and the output file as
\* they were.
C4_InvalidRejected ==
    [][(calls' # calls /\ call'.op = "encode_puzzle" /\ ~WellFormed(call'.puzzle))
           => (call'.ret = "False" /\ enc' = enc /\ cnf_file' = cnf_file)]_vars

C4_Witness ==
    /\ call.op = "encode_puzzle" /\ call.ret = "False" /\ ~WellFormed(call.puzzle)
    /\ enc.num_clauses > 0 /\ cnf_file.exists

\* C5: read_dimacs on the file encode_puzzle wrote for a grid returns that
\* grid: the givens with their values, the blanks 0.
C5_ReadBack ==
    (run.op = "read_dimacs" /\ cnf_file.by = "encode_puzzle") =>
        run.result = Grid(call.puzzle)

\* C6: encode_puzzle of a solvable grid followed by solve, the collaborator
\* answering correctly, returns a grid whose rows, columns and blocks each
\* hold 1..9 and which keeps every given of the grid.
C6_EndToEnd ==
    (/\ run.op = "solve" /\ cnf_file.by = "encode_puzzle"
     /\ HasSolution(call.puzzle) /\ run.outcome # "fault") =>
        /\ run.result.is = "grid"
        /\ IsSolvedGrid(run.result.grid)
        /\ KeepsGivens(call.puzzle, run.result.grid)

\* C7: a well-formed grid with the same digit given twice in a row passes
\* validate_puzzle, and the clause set encode_puzzle generates for it has no
\* satisfying assignment.
C7_DuplicateUnsat ==
    (/\ call.op = "encode_puzzle" /\ run.op = "none"
     /\ WellFormed(call.puzzle) /\ HasRowDuplicate(call.puzzle)) =>
        /\ validate_puzzle(call.puzzle) /\ call.ret = "True"
        /\ \A m \in CandidateModels : ~Satisfies(m, enc.clauses)
        /\ ~Satisfiable(enc.clauses)

C7_Witness ==
    /\ call.op = "encode_puzzle" /\ call.ret = "True" /\ call.puzzle = DupRowA
    /\ Len(enc.clauses) = 3242

\* C8: what solve returns after a fault of the collaborator is never what it
\* returns for "unsatisfiable".
C8_FaultDistinct ==
    (run.op = "solve" /\ run.outcome = "fault") =>
        run.result # solve_result("unsat", [grid |-> ZeroGrid, error |-> "none"])

\* the digit of the last literal of the model that stands for cell (row, col),
\* 0 when there is none
LastDigit(model, row, col) ==
    LET hits == {i \in 1..Len(model) : \E d \in 1..9 : model[i] = row * 81 + col * 9 + d}
    IN  IF hits = {} THEN 0
        ELSE LET last == CHOOSE i \in hits : \A j \in hits : j <= i
             IN  CHOOSE d \in 1..9 : model[last] = row * 81 + col * 9 + d

\* C9: on literals that are nonzero with absolute value in 1..729,
\* extract_solution does not fail; every cell holds the digit of the last
\* positive literal that stands for it, and 0 when there is none (negative
\* literals change nothing).
C9_LastWriteWins ==
    (/\ dec.done
     /\ \A i \in 1..Len(dec.model) : dec.model[i] # 0 /\ Abs(dec.model[i]) \in 1..729) =>
        /\ dec.out.error = "none"
        /\ \A row \in 0..8, col \in 0..8 :
               Cell(dec.out.grid, row, col) = LastDigit(dec.model, row, col)

C9_Witness ==
    /\ dec.done /\ dec.model = <<1, 2, -10>>
    /\ Cell(dec.out.grid, 0, 0) = 2 /\ Cell(dec.out.grid, 0, 1) = 0

\* C10: add_sudoku_clauses on a fresh solver appends the clauses a fresh
\* encoder produces in encode_puzzle for the same grid, in the same order,
\* and propagated_clauses equals num_clauses.
C10_GeneratorsAgree ==
    run.op = "add_sudoku_clauses" =>
        /\ slv.cnf = enc.clauses
        /\ slv.propagated_clauses = enc.num_clauses

C10_Witness ==
    /\ run.op = "add_sudoku_clauses" /\ call.puzzle = Classic
    /\ Len(slv.cnf) = 3270 /\ slv.propagated_clauses = 3270

====
